---- MODULE Spec2Model ----
(***************************************************************************)
(* Node-local volume lifecycle of pkg/volume: the HostDirectory,           *)
(* EmptyDirectory and GCEPersistentDisk variants, their SetUp and TearDown *)
(* handlers, and the directory scan GetCurrentVolumes.                     *)
(*                                                                         *)
(* A path is the sequence of its components (root/pod-A/volumes/empty/x is *)
(* <<"root", "pod-A", "volumes", "empty", "x">>).  The filesystem is the   *)
(* set of directories that exist, the mount table the set of bind mounts,  *)
(* and a disk is in `attached` while it is attached to the host with its   *)
(* global mount root/global/pd/<disk> in place.                            *)
(***************************************************************************)
EXTENDS Integers, Sequences, FiniteSets, TLC

VARIABLES dirs, mounts, attached, last, scanResult, created, running

vars == <<dirs, mounts, attached, last, scanResult, created, running>>

(* ------------------------------ bounds -------------------------------- *)

NumPods == 2
NumDisks == 1
MaxRef == 3
NumTemp == 1
MaxScanEntries == 3
MaxFiles == 2
MaxNesting == 2
MaxListingFailures == 1

PodIDs == <<"pod-A", "pod-B", "pod-C", "pod-D">>
DiskNames == <<"disk-1", "disk-2", "disk-3", "disk-4">>
TempNames == <<"001", "002", "003">>

Pods == {PodIDs[i] : i \in 1..NumPods}
Disks == {DiskNames[i] : i \in 1..NumDisks}
TempSuffixes == {TempNames[i] : i \in 1..NumTemp}

\* What a container leaves in its volume directory, relative to it.
ContentPaths == <<<<"a">>, <<"a", "b">>, <<"c">>, <<"c", "d">>>>
Contents == {ContentPaths[i] : i \in 1..MaxFiles}

RootDir == "root"
PDVolumeName == "data"
EmptyVolumeName == "cache"
HostPath == <<"host", "dir">>

(* ------------------------------ paths --------------------------------- *)

\* path.Join: the non-empty elements, in order.
path_Join(elems) == SelectSeq(elems, LAMBDA e : e # "")

path_Dir(p) == SubSeq(p, 1, Len(p) - 1)

path_Base(p) == p[Len(p)]

IsPrefix(p, q) == Len(p) <= Len(q) /\ SubSeq(q, 1, Len(p)) = p

\* os.Stat(path) reports the path present (err is not IsNotExist).
os_Stat(ds, p) == p \in ds

\* os.MkdirAll: the directory and every missing ancestor.
os_MkdirAll(ds, p) == ds \cup {SubSeq(p, 1, i) : i \in 1..Len(p)}

\* os.RemoveAll: the directory and everything below it.
os_RemoveAll(ds, p) == {d \in ds : ~IsPrefix(p, d)}

\* os.Rename of a directory onto an empty directory: the tree moves.
os_Rename(ds, old, new) ==
    {d \in ds : ~IsPrefix(old, d)}
        \cup {new \o SubSeq(d, Len(old) + 1, Len(d)) : d \in {e \in ds : IsPrefix(old, e)}}

(* ----------------------------- volumes -------------------------------- *)

HostDirectory_GetPath(hostVol) == hostVol.Path

EmptyDirectory_GetPath(emptyDir) ==
    path_Join(<<emptyDir.RootDir, emptyDir.PodID, "volumes", "empty", emptyDir.Name>>)

GCEPersistentDisk_GetPath_ByDisk(PD) ==
    path_Join(<<PD.RootDir, PD.PodID, "volumes", "gce-pd", PD.PDName>>)

GCEPersistentDisk_GetPath(PD) ==
    path_Join(<<PD.RootDir, PD.PodID, "volumes", "gce-pd", PD.Name>>)

makeGlobalPDName(rootDir, devName) == path_Join(<<rootDir, "global", "pd", devName>>)

\* A capability or filesystem call as the handlers make it, and whether it
\* returned an error.
Call(fn, p, dev, flags, err) ==
    [fn |-> fn, path |-> p, dev |-> dev, flags |-> flags, err |-> err]

\* What a handler leaves behind: the state, the error returned ("nil" or the
\* call that failed) and the calls made, in order.
Out(st, ret, calls) == [st |-> st, ret |-> ret, calls |-> calls]

State == [dirs |-> dirs, mounts |-> mounts, attached |-> attached]

\* The injected outcome of a call: env.fails holds the calls that return an error.
Fails(env, fn) == fn \in env.fails

MountFlags(PD) == IF PD.ReadOnly THEN {"MS_BIND", "MS_RDONLY"} ELSE {"MS_BIND"}

\* Lines 175-186: the directory is created and the global mount bound onto
\* it; a failed Mount removes the directory again, the removal's own error
\* being dropped.
SetUp_Mount_NoRollback(st, PD, env, calls) ==
    LET p == GCEPersistentDisk_GetPath(PD)
        cMkdir == Call("MkdirAll", p, "", {}, Fails(env, "MkdirAll"))
        cMount == Call("Mount", p, PD.PDName, MountFlags(PD), Fails(env, "Mount"))
    IN  IF os_Stat(st.dirs, p)
        THEN Out(st, "nil", calls)
        ELSE IF Fails(env, "MkdirAll")
        THEN Out(st, "MkdirAll", calls \o <<cMkdir>>)
        ELSE IF Fails(env, "Mount")
        THEN Out([st EXCEPT !.dirs = os_MkdirAll(@, p)], "Mount",
                 calls \o <<cMkdir, cMount>>)
        ELSE Out([st EXCEPT !.dirs = os_MkdirAll(@, p),
                            !.mounts = @ \cup {[target |-> p, dev |-> PD.PDName]}],
                 "nil", calls \o <<cMkdir, cMount>>)

SetUp_Mount(st, PD, env, calls) ==
    LET p == GCEPersistentDisk_GetPath(PD)
        cMkdir == Call("MkdirAll", p, "", {}, Fails(env, "MkdirAll"))
        cMount == Call("Mount", p, PD.PDName, MountFlags(PD), Fails(env, "Mount"))
        cRemove == Call("RemoveAll", p, "", {}, Fails(env, "RemoveAll"))
    IN  IF os_Stat(st.dirs, p)
        THEN Out(st, "nil", calls)
        ELSE IF Fails(env, "MkdirAll")
        THEN Out(st, "MkdirAll", calls \o <<cMkdir>>)
        ELSE LET s2 == [st EXCEPT !.dirs = os_MkdirAll(@, p)]
             IN  IF Fails(env, "Mount")
                 THEN Out([s2 EXCEPT !.dirs = IF Fails(env, "RemoveAll") THEN @
                                             ELSE os_RemoveAll(@, p)],
                          "Mount", calls \o <<cMkdir, cMount, cRemove>>)
                 ELSE Out([s2 EXCEPT !.mounts =
                               @ \cup {[target |-> p, dev |-> PD.PDName]}],
                          "nil", calls \o <<cMkdir, cMount>>)

\* Lines 166-169: AttachDisk attaches the disk and establishes its global
\* mount; its error ends the call.
SetUp_AttachIgnoringError(st, PD, env) ==
    SetUp_Mount(IF Fails(env, "AttachDisk") THEN st
                ELSE [st EXCEPT !.attached = @ \cup {PD.PDName}],
                PD, env,
                <<Call("AttachDisk", <<>>, PD.PDName, {}, Fails(env, "AttachDisk"))>>)

SetUp_Attach(st, PD, env) ==
    LET cAttach == Call("AttachDisk", <<>>, PD.PDName, {}, Fails(env, "AttachDisk"))
    IN  IF Fails(env, "AttachDisk")
        THEN Out(st, "AttachDisk", <<cAttach>>)
        ELSE SetUp_Mount([st EXCEPT !.attached = @ \cup {PD.PDName}], PD, env,
                         <<cAttach>>)

\* Lines 162-165: an existing canonical path ends the call with success.
GCEPersistentDisk_SetUp_NoGuard(st, PD, env) == SetUp_Attach(st, PD, env)

GCEPersistentDisk_SetUp(st, PD, env) ==
    IF os_Stat(st.dirs, GCEPersistentDisk_GetPath(PD))
    THEN Out(st, "nil", <<>>)
    ELSE SetUp_Attach(st, PD, env)

\* refCount-- followed by the test refCount == 1.
DetachCondition_NoDecrement(refCount) == refCount = 1

DetachCondition_AtLeastOne(refCount) == refCount - 1 >= 1

DetachCondition_UpToTwo(refCount) == refCount - 1 \in {1, 2}

DetachCondition(refCount) == refCount - 1 = 1

\* Lines 207-214: the disk is detached when the decremented count is 1.
TearDown_Detach_Always(st, PD, env, calls) ==
    LET cDetach == Call("DetachDisk", <<>>, env.rc.dev, {}, Fails(env, "DetachDisk"))
    IN  IF Fails(env, "DetachDisk")
        THEN Out(st, "DetachDisk", calls \o <<cDetach>>)
        ELSE Out([st EXCEPT !.attached = @ \ {env.rc.dev}], "nil", calls \o <<cDetach>>)

TearDown_Detach_Never(st, PD, env, calls) == Out(st, "nil", calls)

TearDown_Detach_ByDiskName(st, PD, env, calls) ==
    LET devicePath == PD.PDName
        cDetach == Call("DetachDisk", <<>>, devicePath, {}, Fails(env, "DetachDisk"))
    IN  IF DetachCondition(env.rc.count)
        THEN IF Fails(env, "DetachDisk")
             THEN Out(st, "DetachDisk", calls \o <<cDetach>>)
             ELSE Out([st EXCEPT !.attached = @ \ {devicePath}], "nil",
                      calls \o <<cDetach>>)
        ELSE Out(st, "nil", calls)

TearDown_Detach(st, PD, env, calls) ==
    LET devicePath == env.rc.dev
        cDetach == Call("DetachDisk", <<>>, devicePath, {}, Fails(env, "DetachDisk"))
    IN  IF DetachCondition(env.rc.count)
        THEN IF Fails(env, "DetachDisk")
             THEN Out(st, "DetachDisk", calls \o <<cDetach>>)
             ELSE Out([st EXCEPT !.attached = @ \ {devicePath}], "nil",
                      calls \o <<cDetach>>)
        ELSE Out(st, "nil", calls)

\* Lines 200-206: the canonical directory is removed.
TearDown_Remove_AfterDetach(st, PD, env, calls) ==
    LET p == GCEPersistentDisk_GetPath(PD)
        cRemove == Call("RemoveAll", p, "", {}, Fails(env, "RemoveAll"))
        o == TearDown_Detach(st, PD, env, calls)
    IN  IF o.ret # "nil"
        THEN o
        ELSE IF Fails(env, "RemoveAll")
        THEN Out(o.st, "RemoveAll", o.calls \o <<cRemove>>)
        ELSE Out([o.st EXCEPT !.dirs = os_RemoveAll(@, p)], "nil", o.calls \o <<cRemove>>)

TearDown_Remove(st, PD, env, calls) ==
    LET p == GCEPersistentDisk_GetPath(PD)
        cRemove == Call("RemoveAll", p, "", {}, Fails(env, "RemoveAll"))
    IN  IF Fails(env, "RemoveAll")
        THEN Out(st, "RemoveAll", calls \o <<cRemove>>)
        ELSE TearDown_Detach([st EXCEPT !.dirs = os_RemoveAll(@, p)], PD, env,
                             calls \o <<cRemove>>)

\* Lines 197-199: the bind mount is unmounted; an error ends the call.
TearDown_UnmountIgnoringError(st, PD, env, calls) ==
    LET p == GCEPersistentDisk_GetPath(PD)
    IN  TearDown_Remove(IF Fails(env, "Unmount") THEN st
                        ELSE [st EXCEPT !.mounts = {m \in @ : m.target # p}],
                        PD, env,
                        calls \o <<Call("Unmount", p, "", {}, Fails(env, "Unmount"))>>)

TearDown_RemoveBeforeUnmount(st, PD, env, calls) ==
    LET p == GCEPersistentDisk_GetPath(PD)
        cUnmount == Call("Unmount", p, "", {}, Fails(env, "Unmount"))
        cRemove == Call("RemoveAll", p, "", {}, FALSE)
        s1 == [st EXCEPT !.dirs = os_RemoveAll(@, p)]
    IN  IF Fails(env, "Unmount")
        THEN Out(s1, "Unmount", calls \o <<cRemove, cUnmount>>)
        ELSE TearDown_Detach([s1 EXCEPT !.mounts = {m \in @ : m.target # p}], PD, env,
                             calls \o <<cRemove, cUnmount>>)

TearDown_Unmount(st, PD, env, calls) ==
    LET p == GCEPersistentDisk_GetPath(PD)
        cUnmount == Call("Unmount", p, "", {}, Fails(env, "Unmount"))
    IN  IF Fails(env, "Unmount")
        THEN Out(st, "Unmount", calls \o <<cUnmount>>)
        ELSE TearDown_Remove([st EXCEPT !.mounts = {m \in @ : m.target # p}], PD, env,
                             calls \o <<cUnmount>>)

\* Lines 192-196: RefCount is asked first; its error ends the call.
GCEPersistentDisk_TearDown(st, PD, env) ==
    LET cRef == Call("RefCount", GCEPersistentDisk_GetPath(PD), "", {}, env.rc.err)
    IN  IF env.rc.err
        THEN Out(st, "RefCount", <<cRef>>)
        ELSE TearDown_Unmount(st, PD, env, <<cRef>>)

HostDirectory_SetUp(st, hostVol) == Out(st, "nil", <<>>)

\* os.MkdirAll succeeds at once on a directory that exists.
EmptyDirectory_SetUp(st, emptyDir, env) ==
    LET p == EmptyDirectory_GetPath(emptyDir)
        exists == os_Stat(st.dirs, p)
        cMkdir == Call("MkdirAll", p, "", {}, ~exists /\ Fails(env, "MkdirAll"))
    IN  IF exists
        THEN Out(st, "nil", <<cMkdir>>)
        ELSE IF Fails(env, "MkdirAll")
        THEN Out(st, "MkdirAll", <<cMkdir>>)
        ELSE Out([st EXCEPT !.dirs = os_MkdirAll(@, p)], "nil", <<cMkdir>>)

\* ioutil.TempDir(dir, prefix) (line 113): a new directory dir/prefix<suffix>,
\* the suffix one that is free.
TempDirName(dir, prefix, suffix) == dir \o <<prefix \o suffix>>

NoDevice == ""

\* The device of the bind mount at a path, if any.
MountedDevice(st, p) ==
    IF \E m \in st.mounts : m.target = p
    THEN (CHOOSE m \in st.mounts : m.target = p).dev
    ELSE NoDevice

(* ---------------------------- factories ------------------------------- *)

\* createGCEPersistentDisk: the Builder carries the provider attributes.
createGCEPersistentDisk(name, podID, rootDir, pdName, readOnly) ==
    [Name |-> name, PodID |-> podID, RootDir |-> rootDir, PDName |-> pdName,
     ReadOnly |-> readOnly]

createEmptyDirectory(name, podID, rootDir) ==
    [Name |-> name, PodID |-> podID, RootDir |-> rootDir]

createHostDirectory(p) == [Path |-> p]

\* CreateVolumeCleaner: identity alone; "" stands for no Cleaner and
\* ErrUnsupportedVolumeType.
CreateVolumeCleaner(kind, name, podID, rootDir) ==
    CASE kind = "empty" ->
            [kind |-> "empty", vol |-> createEmptyDirectory(name, podID, rootDir),
             err |-> "nil"]
      [] kind = "gce-pd" ->
            [kind |-> "gce-pd",
             vol |-> createGCEPersistentDisk(name, podID, rootDir, "", FALSE),
             err |-> "nil"]
      [] OTHER ->
            [kind |-> "", vol |-> createEmptyDirectory("", "", ""),
             err |-> "ErrUnsupportedVolumeType"]

\* An api.Volume: its name and its source, a pointer that may be nil to a
\* struct of three pointers, each of which may be nil.
NilHostDirectory == [nil |-> TRUE, Path |-> <<>>]
NilEmptyDirectory == [nil |-> TRUE]
NilGCEPersistentDisk == [nil |-> TRUE, PDName |-> "", ReadOnly |-> FALSE]
NilSource ==
    [nil |-> TRUE, HostDirectory |-> NilHostDirectory,
     EmptyDirectory |-> NilEmptyDirectory, GCEPersistentDisk |-> NilGCEPersistentDisk]

\* No Builder (a nil interface value).
NilBuilder == [kind |-> "", vol |-> createEmptyDirectory("", "", "")]

\* CreateVolumeBuilder: nil for a nil source; else the first of the three
\* pointers that is set decides; else ErrUnsupportedVolumeType.
CreateVolumeBuilder_EmptyFirst(volume, podID, rootDir) ==
    LET source == volume.Source
    IN  IF source.nil
        THEN [kind |-> "", vol |-> NilBuilder.vol, err |-> "nil"]
        ELSE IF ~source.EmptyDirectory.nil
        THEN [kind |-> "empty", vol |-> createEmptyDirectory(volume.Name, podID, rootDir),
              err |-> "nil"]
        ELSE IF ~source.HostDirectory.nil
        THEN [kind |-> "host", vol |-> createHostDirectory(source.HostDirectory.Path),
              err |-> "nil"]
        ELSE IF ~source.GCEPersistentDisk.nil
        THEN [kind |-> "gce-pd",
              vol |-> createGCEPersistentDisk(volume.Name, podID, rootDir,
                                              source.GCEPersistentDisk.PDName,
                                              source.GCEPersistentDisk.ReadOnly),
              err |-> "nil"]
        ELSE [kind |-> "", vol |-> NilBuilder.vol, err |-> "ErrUnsupportedVolumeType"]

CreateVolumeBuilder(volume, podID, rootDir) ==
    LET source == volume.Source
    IN  IF source.nil
        THEN [kind |-> "", vol |-> NilBuilder.vol, err |-> "nil"]
        ELSE IF ~source.HostDirectory.nil
        THEN [kind |-> "host", vol |-> createHostDirectory(source.HostDirectory.Path),
              err |-> "nil"]
        ELSE IF ~source.EmptyDirectory.nil
        THEN [kind |-> "empty", vol |-> createEmptyDirectory(volume.Name, podID, rootDir),
              err |-> "nil"]
        ELSE IF ~source.GCEPersistentDisk.nil
        THEN [kind |-> "gce-pd",
              vol |-> createGCEPersistentDisk(volume.Name, podID, rootDir,
                                              source.GCEPersistentDisk.PDName,
                                              source.GCEPersistentDisk.ReadOnly),
              err |-> "nil"]
        ELSE [kind |-> "", vol |-> NilBuilder.vol, err |-> "ErrUnsupportedVolumeType"]

\* The legacy package volumes: a volume specification carries a type and a
\* path, and only the type "HOST" is known.
HostDirectoryVolume_GetPath(hostVol) == hostVol.Path

createHostDirectoryVolume(volume) == [Name |-> volume.Name, Path |-> volume.Path]

NilExternalVolume == [Name |-> "", Path |-> ""]

CreateVolume_AnyType(volume) ==
    [nil |-> FALSE, vol |-> createHostDirectoryVolume(volume), err |-> "nil"]

CreateVolume(volume) ==
    IF volume.Type = "HOST"
    THEN [nil |-> FALSE, vol |-> createHostDirectoryVolume(volume), err |-> "nil"]
    ELSE [nil |-> TRUE, vol |-> NilExternalVolume, err |-> "Unsupported volume type."]

\* The first disk is the one pods share read-only; the others are read-write.
DiskReadOnly(pd) == pd = DiskNames[1]

PDBuilders ==
    {createGCEPersistentDisk(PDVolumeName, pod, RootDir, pd, DiskReadOnly(pd)) :
        pod \in Pods, pd \in Disks}

PDCleaners ==
    {CreateVolumeCleaner("gce-pd", PDVolumeName, pod, RootDir).vol : pod \in Pods}

\* Who tears a volume down: the Cleaner rebuilt from its identity, or the
\* Builder that bound the disk now mounted at its path.
PDTearDownCallers(st) ==
    PDCleaners \cup {b \in PDBuilders : b.PDName = MountedDevice(st, GCEPersistentDisk_GetPath(b))}

\* EmptyDirectory volumes touch no path, mount or disk of another volume; the
\* first pod declares one.
EmptyDirs == {createEmptyDirectory(EmptyVolumeName, PodIDs[1], RootDir)}

(* ------------------------- directory scan ----------------------------- *)

\* A name followed by the temporary names teardowns make of it
\* (<name>.deleting~<suffix>, line 113) and of those, to the given nesting, in
\* byte order.
RECURSIVE DeletingNames(_, _)
DeletingNames(name, nesting) ==
    LET Made[i \in 0..NumTemp] ==
            IF i = 0 THEN <<>>
            ELSE Made[i - 1] \o DeletingNames(name \o ".deleting~" \o TempNames[i],
                                              nesting - 1)
    IN  <<name>> \o (IF nesting = 0 THEN <<>> ELSE Made[NumTemp])

\* The names in use, in the byte order ioutil.ReadDir sorts by.
NameOrder ==
    DeletingNames("cache", MaxNesting) \o
    <<"data", "empty", "gce-pd", "global", "pod-A", "pod-B", "pod-C", "pod-D",
      "unknown", "volumes">>

\* The filesystem as a scan meets it: the directories, and those whose
\* listing fails although they exist.
FileSystem(ds, unreadable) == [dirs |-> ds, unreadable |-> unreadable]

\* ioutil.ReadDir returns an error: the directory is missing or unreadable.
ReadDirError(fs, p) == ~os_Stat(fs.dirs, p) \/ p \in fs.unreadable

\* ioutil.ReadDir: the names of the entries of a directory, sorted; none when
\* the directory cannot be read (the error is logged and the nil list ranged
\* over).
ioutil_ReadDir(fs, p) ==
    LET names == {d[Len(p) + 1] :
                    d \in {e \in fs.dirs : Len(e) = Len(p) + 1 /\ IsPrefix(p, e)}}
    IN  IF ReadDirError(fs, p) THEN <<>>
        ELSE SelectSeq(NameOrder, LAMBDA n : n \in names)

\* The identifier path.Join(podID, volumeName).
VolumeIdentifier(podID, volumeName) == podID \o "/" \o volumeName

\* currentVolumes[identifier] = cleaner.
MapPut(m, k, v) == {e \in m : e.key # k} \cup {[key |-> k, cleaner |-> v]}

\* Lines 326-336: the volumes of one kind directory.
RECURSIVE ScanNames(_, _, _, _, _)
ScanNames(m, names, volumeKind, podID, rootDirectory) ==
    IF names = <<>>
    THEN m
    ELSE LET volumeName == Head(names)
             c == CreateVolumeCleaner(volumeKind, volumeName, podID, rootDirectory)
         IN  ScanNames(IF c.err # "nil" THEN m
                       ELSE MapPut(m, VolumeIdentifier(podID, volumeName),
                                   [kind |-> c.kind, vol |-> c.vol]),
                       Tail(names), volumeKind, podID, rootDirectory)

\* Lines 319-337: the kind directories of one pod.
RECURSIVE ScanKinds(_, _, _, _, _)
ScanKinds(m, fs, kinds, podID, rootDirectory) ==
    IF kinds = <<>>
    THEN m
    ELSE LET podIDPath == path_Join(<<rootDirectory, podID, "volumes">>)
             volumeKindPath == path_Join(podIDPath \o <<Head(kinds)>>)
         IN  ScanKinds(ScanNames(m, ioutil_ReadDir(fs, volumeKindPath), Head(kinds),
                                 podID, rootDirectory),
                       fs, Tail(kinds), podID, rootDirectory)

\* Lines 309-338: the pod directories under the root.
RECURSIVE ScanPods(_, _, _, _)
ScanPods(m, fs, pods, rootDirectory) ==
    IF pods = <<>>
    THEN m
    ELSE LET podID == Head(pods)
             podIDPath == path_Join(<<rootDirectory, podID, "volumes">>)
         IN  ScanPods(ScanKinds(m, fs, ioutil_ReadDir(fs, podIDPath), podID,
                                rootDirectory),
                      fs, Tail(pods), rootDirectory)

GetCurrentVolumes(fs, rootDirectory) ==
    ScanPods({}, fs, ioutil_ReadDir(fs, <<rootDirectory>>), rootDirectory)

(* --------------------------- capabilities ----------------------------- *)

RefCountError == [err |-> TRUE, dev |-> NoDevice, count |-> 0]

\* A substituted mounter: RefCount fails, or answers the device bound at the
\* path with any count.
FakeRefCount(st, p) ==
    {RefCountError} \cup [err : {FALSE}, dev : {MountedDevice(st, p)}, count : 0..MaxRef]

\* The mount table's answer: the device mounted at the path and the number of
\* mount entries of that device, the global mount included.
DiskMounter_RefCount(st, p) ==
    LET d == MountedDevice(st, p)
    IN  IF d = NoDevice
        THEN [err |-> FALSE, dev |-> NoDevice, count |-> 0]
        ELSE [err |-> FALSE, dev |-> d,
              count |-> Cardinality({m \in st.mounts : m.dev = d})
                            + (IF d \in st.attached THEN 1 ELSE 0)]

\* The calls that fail in one SetUp, as far as the handler gets to make them:
\* fails holds the calls that return an error, inj those made to fail from
\* outside (the rest fail because of the state they are made in).
Injected(F) == {[fails |-> f, inj |-> f] : f \in F}

SetUpEnv ==
    Injected({{}, {"AttachDisk"}, {"MkdirAll"}, {"Mount"}, {"Mount", "RemoveAll"}})

TearDownFails == {{}, {"Unmount"}, {"RemoveAll"}, {"DetachDisk"}}

\* The outcomes of the calls of one TearDown: RefCount's answer, and the
\* calls after it that return an error, whatever the state they are made in.
\* After a failed RefCount no further call is made, so none is made to fail.
TearDownOutcomes(rcs) ==
    {e \in [rc : rcs, fails : TearDownFails] : e.rc.err => e.fails = {}}

EmptySetUpEnv == Injected({{}, {"MkdirAll"}})

NoEnv == [fails |-> {}, inj |-> {}]

(* ------------------------------ actions ------------------------------- *)

\* The call that has just returned: the handler, its path, the error returned
\* ("nil" or the call that failed), whether that failure was injected, the
\* calls made, the count RefCount answered, what held of the path when the
\* call began, and whether a PersistentDisk call of another pod or a direct
\* call of the cloud provider fell within it.  It is NoCall once the host has
\* moved on; a direct call of the cloud provider leaves its name and its error.
NoCall == [op |-> "none", path |-> <<>>, ret |-> "nil", injected |-> FALSE,
           calls |-> <<>>, refCount |-> 0,
           pre |-> [exists |-> FALSE, dev |-> "", binds |-> 0, counted |-> {},
                    attached |-> {}],
           raced |-> FALSE]

NotCreated == [op |-> "none"]

\* What is remembered of the TearDowns of a pod's PersistentDisk that have
\* returned: the last one (torn); or the last one called on a Builder
\* (builder) and the one called after it on a Cleaner made from the identity
\* alone (cleaner), when that began with the same mounts, bind mounts and
\* attached disks as the Builder's, until the pod's next call begins.
NoDone == [torn |-> NoCall, builder |-> NoCall, cleaner |-> NoCall]

\* A pod with no call in progress, and the fields of an EmptyDirectory
\* TearDown in progress: where it stands, the canonical path, the temporary
\* directory, what the volume directory held and what stood around it when
\* the call began, what held of the path then, and the calls made.  raced: a
\* PersistentDisk call of this pod has overlapped one of another pod; failed:
\* a PersistentDisk call of this pod has returned an error; done: its
\* TearDowns that have returned.
Idle == [pc |-> "idle", path |-> <<>>, tmpDir |-> <<>>, snapshot |-> {}, before |-> {},
         pre |-> NoCall.pre, calls |-> <<>>, raced |-> FALSE, failed |-> FALSE,
         done |-> NoDone]

\* The scan of the tree: whether one has returned, the directories whose
\* listing failed, and the map returned; for a scan in progress (pc "scan")
\* the pod directories still to visit, the pod being visited, its kind
\* directories still to list and the map so far; and whether a directory
\* was made, renamed or removed since the scan began.
NoScan == [scanned |-> FALSE, unreadable |-> {}, volumes |-> {},
           pc |-> "idle", pods |-> <<>>, podID |-> "", kinds |-> <<>>, found |-> {},
           moved |-> FALSE]

Init ==
    /\ dirs = {<<RootDir>>}
    /\ mounts = {}
    /\ attached = {}
    /\ last = NoCall
    /\ scanResult = NoScan
    /\ created = NotCreated
    /\ running = [podID \in Pods |-> Idle]

\* A step that changes the directories is one the scan in progress, or the
\* map the last scan returned, has not seen.
ScanTold ==
    scanResult' = IF (scanResult.pc = "scan" \/ scanResult.scanned) /\ dirs' # dirs
                  THEN [scanResult EXCEPT !.moved = TRUE]
                  ELSE scanResult

\* What held before the call: whether the path existed, the device bind
\* mounted at it, the number of bind mounts of that device and their
\* targets, the disks attached.
Before(st, p) ==
    [exists |-> os_Stat(st.dirs, p), dev |-> MountedDevice(st, p),
     binds |-> Cardinality({m \in st.mounts : m.dev = MountedDevice(st, p)}),
     counted |-> {m.target : m \in {x \in st.mounts : x.dev = MountedDevice(st, p)}},
     attached |-> st.attached]

Commit(op, p, o, env, rc) ==
    /\ dirs' = o.st.dirs
    /\ mounts' = o.st.mounts
    /\ attached' = o.st.attached
    /\ last' = [op |-> op, path |-> p, ret |-> o.ret,
                injected |-> (o.ret \in env.inj \/ o.ret = "RefCount"),
                calls |-> o.calls, refCount |-> rc.count,
                pre |-> Before(State, p), raced |-> FALSE]
    /\ ScanTold
    /\ UNCHANGED <<created, running>>

NoRefCount == [err |-> FALSE, dev |-> NoDevice, count |-> 0]

\* The effect of one call on the host; a call that returned an error has none.
\* GCECloud.AttachDisk (gce.go 283-295): getDisk looks the disk up, then the
\* Instances.AttachDisk request is made; the error of either is returned and
\* the disk is not attached.  The access mode of the request (lines 288-291)
\* is no part of the host's state.
GCECloud_AttachDisk(st, diskName, fails) ==
    IF "getDisk" \in fails THEN [st |-> st, ret |-> "getDisk"]
    ELSE IF "Instances.AttachDisk" \in fails
    THEN [st |-> st, ret |-> "Instances.AttachDisk"]
    ELSE [st |-> [st EXCEPT !.attached = @ \cup {diskName}], ret |-> "nil"]

\* GCECloud.DetachDisk (gce.go 297-300): the device is detached, whatever is
\* mounted from it.
GCECloud_DetachDisk(st, devicePath, fails) ==
    IF "Instances.DetachDisk" \in fails
    THEN [st |-> st, ret |-> "Instances.DetachDisk"]
    ELSE [st |-> [st EXCEPT !.attached = @ \ {devicePath}], ret |-> "nil"]

\* What a call that succeeded does to the host as it is when it is made.
CallEffect(st, c) ==
    IF c.err THEN st
    ELSE CASE c.fn = "AttachDisk" -> GCECloud_AttachDisk(st, c.dev, {}).st
           [] c.fn = "MkdirAll" -> [st EXCEPT !.dirs = os_MkdirAll(@, c.path)]
           [] c.fn = "Mount" ->
                 [st EXCEPT !.mounts = @ \cup {[target |-> c.path, dev |-> c.dev]}]
           [] c.fn = "RemoveAll" -> [st EXCEPT !.dirs = os_RemoveAll(@, c.path)]
           [] c.fn = "Unmount" -> [st EXCEPT !.mounts = {m \in @ : m.target # c.path}]
           [] c.fn = "DetachDisk" -> GCECloud_DetachDisk(st, c.dev, {}).st
           [] OTHER -> st

InProgress(podID) == running[podID].pc # "idle"

\* The call in progress is one of a PersistentDisk, not an EmptyDirectory
\* teardown, which touches no mount and no disk.
PDInProgress(podID) == running[podID].pc = "call"

\* The capabilities the instances carry and what is remembered of their
\* calls.  "fake": substituted capabilities, RefCount answering any count;
\* every other host has the node's own mounter, whose RefCount reads the
\* mount table.  Any call of either can return an error.  On "live" and
\* "fake" the call that returned is kept in last, as it is on "race", where
\* each pod also keeps its last TearDown and whether a call of it has failed;
\* on "restart" each pod keeps its last TearDown by a Builder and the
\* Cleaner's after it; on "scan" nothing is kept of a call.
KeepsLast(host) == host \in {"live", "fake", "race"}

KeepsOverlap(host) == host \in {"live", "fake", "race"}

\* A PersistentDisk call in progress: the handler, the instance it was called
\* on, its path, what held when it began, RefCount's answer, the calls made
\* so far, whether a PersistentDisk call of another pod or a direct call of
\* the cloud provider has fallen within it (overlapped), and whether one has
\* within any call of this pod, or a direct call of the cloud provider was
\* made (raced).
CallBegun(op, PD, rc, host) ==
    LET Others == {q \in Pods \ {PD.PodID} : PDInProgress(q)}
        was == running[PD.PodID]
    IN  [pc |-> "call", op |-> op, vol |-> PD, path |-> GCEPersistentDisk_GetPath(PD),
         pre |-> Before(State, GCEPersistentDisk_GetPath(PD)), rc |-> rc,
         calls |-> <<>>, overlapped |-> (KeepsOverlap(host) /\ Others # {}),
         raced |-> (KeepsOverlap(host) /\ (was.raced \/ Others # {})),
         failed |-> was.failed,
         done |-> IF host = "race" \/ was.done.cleaner # NoCall THEN NoDone ELSE was.done]

\* The PersistentDisk calls in progress when a call of podID begins have
\* overlapped it.
Overlapping(podID, r, host) ==
    [q \in Pods |->
        IF q = podID THEN r
        ELSE IF PDInProgress(q) /\ KeepsOverlap(host)
        THEN [running[q] EXCEPT !.overlapped = TRUE, !.raced = TRUE]
        ELSE running[q]]

\* What the handler can read of the host when the call begins: whether its
\* path exists (os.Stat, line 163); the rest it learns from its calls.
AsBegun(r) ==
    [dirs |-> IF r.pre.exists THEN os_MkdirAll({}, r.path) ELSE {},
     mounts |-> IF r.pre.dev = NoDevice THEN {}
                ELSE {[target |-> r.path, dev |-> r.pre.dev]},
     attached |-> r.pre.attached]

\* The outcomes the calls of a call in progress can have: any call can
\* return an error.  For a TearDown, RefCount has answered.
CallEnv(r) ==
    IF r.op = "GCEPersistentDisk.SetUp"
    THEN SetUpEnv
    ELSE {[rc |-> e.rc, fails |-> e.fails, inj |-> e.fails] :
             e \in TearDownOutcomes({r.rc})}

\* The handler run on what it read and on the outcomes env of its calls.
Handler(r, env) ==
    IF r.op = "GCEPersistentDisk.SetUp"
    THEN GCEPersistentDisk_SetUp(AsBegun(r), r.vol, env)
    ELSE GCEPersistentDisk_TearDown(AsBegun(r), r.vol, env)

\* The runs of the handler that agree with the calls made so far: for each,
\* its calls, the error it returns and whether that error was injected.
Runs(r) ==
    {run \in {LET o == Handler(r, env)
              IN  [calls |-> o.calls, ret |-> o.ret,
                   injected |-> (o.ret \in env.inj \/ o.ret = "RefCount")] :
              env \in CallEnv(r)} :
        /\ Len(run.calls) >= Len(r.calls)
        /\ SubSeq(run.calls, 1, Len(r.calls)) = r.calls}

\* The record of a call that returns.
Returning(r, run) ==
    [op |-> r.op, path |-> r.path, ret |-> run.ret, injected |-> run.injected,
     calls |-> run.calls, refCount |-> r.rc.count, pre |-> r.pre,
     raced |-> r.overlapped]

\* A Cleaner made from the identity alone carries no disk name.
IsCleaner(PD) == PD.PDName = ""

\* The pod whose TearDowns by Builder and by Cleaner are kept on "restart":
\* the first; the other pods share its disk.
Compared(PD) == PD.PodID = PodIDs[1]

\* What the pod keeps of the call that returns.
Kept(r, run, host) ==
    LET rec == Returning(r, run)
        torn == r.op = "GCEPersistentDisk.TearDown"
    IN  [Idle EXCEPT
            !.raced = r.raced,
            !.failed = (host = "race" /\ (r.failed \/ run.ret # "nil")),
            !.done = CASE host = "race" /\ torn -> [NoDone EXCEPT !.torn = rec]
                       [] host = "restart" /\ torn /\ Compared(r.vol) /\ ~IsCleaner(r.vol) ->
                             [NoDone EXCEPT !.builder = rec]
                       [] host = "restart" /\ torn /\ Compared(r.vol) /\ IsCleaner(r.vol) ->
                             IF r.done.builder.op = r.op /\ r.done.builder.pre = rec.pre
                             THEN [r.done EXCEPT !.cleaner = rec]
                             ELSE r.done
                       [] OTHER -> r.done]

\* The call returns: last takes its record, the pod is idle again.
Return(r, run, host) ==
    /\ last' = IF KeepsLast(host) THEN Returning(r, run) ELSE NoCall
    /\ running' = [Overlapping(r.vol.PodID, r, host) EXCEPT
                      ![r.vol.PodID] = Kept(r, run, host)]

\* What a call in progress can do next: make the next call of a run, which
\* is the last call of that run or not.
NextCalls(r) ==
    {[c |-> run.calls[Len(r.calls) + 1],
      final |-> Len(run.calls) = Len(r.calls) + 1,
      run |-> IF Len(run.calls) = Len(r.calls) + 1 THEN run
              ELSE [calls |-> <<>>, ret |-> "nil", injected |-> FALSE]] :
        run \in {x \in Runs(r) : Len(x.calls) > Len(r.calls)}}

\* One more call of the handler takes effect on the host as it is now; after
\* the last call of the run the handler returns.
CallStep(r, host) ==
    \E n \in NextCalls(r) :
        LET s == CallEffect(State, n.c)
        IN  /\ dirs' = s.dirs
            /\ mounts' = s.mounts
            /\ attached' = s.attached
            /\ IF n.final
               THEN Return(r, n.run, host)
               ELSE /\ running' = Overlapping(r.vol.PodID,
                                              [r EXCEPT !.calls = Append(@, n.c)], host)
                    /\ last' = NoCall
            /\ ScanTold
            /\ UNCHANGED <<created>>

\* SetUp begins with os.Stat of the canonical path (lines 163-165): the call
\* returns at once when the run makes no call, else AttachDisk is next.
PDSetUpBegin(PD, host) ==
    LET r == CallBegun("GCEPersistentDisk.SetUp", PD, NoRefCount, host)
        Done == {run \in Runs(r) : run.calls = <<>>}
    IN  /\ ~InProgress(PD.PodID)
        /\ IF Done # {}
           THEN \E run \in Done : Return(r, run, host)
           ELSE running' = Overlapping(PD.PodID, r, host) /\ last' = NoCall
        /\ UNCHANGED <<dirs, mounts, attached, scanResult, created>>

\* TearDown begins with RefCount (line 193), answered by the mount table as
\* it is now or by a substituted mounter.
RefCountAnswers(p, host) ==
    IF host = "fake" THEN FakeRefCount(State, p)
    ELSE {RefCountError, DiskMounter_RefCount(State, p)}

PDTearDownBegin(PD, rc, host) ==
    /\ ~InProgress(PD.PodID)
    /\ CallStep(CallBegun("GCEPersistentDisk.TearDown", PD, rc, host), host)

\* A call in progress makes its next call.
PDCallNext(podID, host) ==
    /\ running[podID].pc = "call"
    /\ CallStep(running[podID], host)

\* The cloud provider called by another part of the process, not through a
\* volume: the calls of the handlers are then no longer the only ones that
\* attach and detach, which every pod's record keeps.
CloudCalled(op, o) ==
    /\ attached' = o.st.attached
    /\ last' = [NoCall EXCEPT !.op = op, !.ret = o.ret]
    /\ running' = [q \in Pods |->
                      IF PDInProgress(q)
                      THEN [running[q] EXCEPT !.overlapped = TRUE, !.raced = TRUE]
                      ELSE [running[q] EXCEPT !.raced = TRUE]]
    /\ UNCHANGED <<dirs, mounts, scanResult, created>>

AttachDiskFails == {{}, {"getDisk"}, {"Instances.AttachDisk"}}
DetachDiskFails == {{}, {"Instances.DetachDisk"}}

CloudAttachDisk(diskName, fails) ==
    CloudCalled("GCECloud.AttachDisk", GCECloud_AttachDisk(State, diskName, fails))

CloudDetachDisk(devicePath, fails) ==
    CloudCalled("GCECloud.DetachDisk", GCECloud_DetachDisk(State, devicePath, fails))

\* The calls of one pod come one after another.
EmptySetUp(emptyDir, env) ==
    /\ ~InProgress(emptyDir.PodID)
    /\ Commit("EmptyDirectory.SetUp", EmptyDirectory_GetPath(emptyDir),
              EmptyDirectory_SetUp(State, emptyDir, env), env, NoRefCount)

HostSetUp(hostVol) ==
    Commit("HostDirectory.SetUp", HostDirectory_GetPath(hostVol),
           HostDirectory_SetUp(State, hostVol), NoEnv, NoRefCount)

(* ----------------- EmptyDirectory teardown, call by call --------------- *)

\* What a directory holds, relative to it.
Content(ds, p) == {SubSeq(d, Len(p) + 1, Len(d)) : d \in {e \in ds : IsPrefix(p, e) /\ e # p}}

\* The entries os.RemoveAll can unlink next: those with nothing below them.
Removable(ds, p) == {d \in ds : IsPrefix(p, d) /\ \A e \in ds : IsPrefix(d, e) => e = d}

\* The directories on the way to the parent of a path and what the parent
\* holds: what a teardown of the path reads and writes.
Around(ds, p) == {d \in ds : IsPrefix(d, path_Dir(p)) \/ IsPrefix(path_Dir(p), d)}

\* Line 117: os.Rename moves the volume directory onto the temporary one,
\* which is the directory removed afterwards.
RenameStep_InPlace(ds, oldPath, newPath) == [dirs |-> ds, tmpDir |-> oldPath]

RenameStep_Copy(ds, oldPath, newPath) ==
    [dirs |-> ds \cup os_Rename(ds, oldPath, newPath), tmpDir |-> newPath]

RenameStep(ds, oldPath, newPath) ==
    [dirs |-> os_Rename(ds, oldPath, newPath), tmpDir |-> newPath]

\* The names a temporary directory can take.
TempDirNames == {DeletingNames(EmptyVolumeName, MaxNesting)[i] :
                    i \in 2..Len(DeletingNames(EmptyVolumeName, MaxNesting))}

\* An EmptyDirectory TearDown begins: the record of the call.
TearDownBegun(emptyDir, newPath) ==
    LET p == EmptyDirectory_GetPath(emptyDir)
    IN  [running[emptyDir.PodID] EXCEPT
            !.pc = "rename", !.path = p, !.tmpDir = newPath,
            !.snapshot = Content(dirs, p), !.before = Around(dirs, p),
            !.pre = Before(State, p), !.calls = <<>>]

\* The pod is idle again.
Returned(podID) ==
    [Idle EXCEPT !.raced = running[podID].raced, !.failed = running[podID].failed,
                 !.done = running[podID].done]

\* The call run returns ret after the calls made so far and the call c;
\* injected: the error was c's, made to fail from outside.
TearDownReturns(run, c, ret, injected) ==
    [NoCall EXCEPT !.op = "EmptyDirectory.TearDown", !.path = run.path, !.ret = ret,
                   !.injected = injected, !.calls = Append(run.calls, c),
                   !.pre = run.pre]

\* Lines 113-116: ioutil.TempDir creates the temporary directory next to the
\* volume directory; on its error (the parent directory is missing, or any
\* other) the call returns the error with nothing changed.
TearDownTempDir(emptyDir, suffix, fails) ==
    LET p == EmptyDirectory_GetPath(emptyDir)
        newPath == TempDirName(path_Dir(p), path_Base(p) \o ".deleting~", suffix)
        run == TearDownBegun(emptyDir, newPath)
        err == fails \/ ~os_Stat(dirs, path_Dir(p))
        c == Call("TempDir", IF err THEN <<>> ELSE newPath, "", {}, err)
    IN  /\ ~InProgress(emptyDir.PodID)
        /\ path_Base(newPath) \in TempDirNames
        /\ IF err
           THEN /\ dirs' = dirs
                /\ running' = running
                /\ last' = TearDownReturns(run, c, "TempDir", fails)
           ELSE /\ newPath \notin dirs
                /\ dirs' = dirs \cup {newPath}
                /\ running' = [running EXCEPT ![emptyDir.PodID] =
                                  [run EXCEPT !.calls = <<c>>]]
                /\ last' = NoCall
        /\ ScanTold
        /\ UNCHANGED <<mounts, attached, created>>

\* Lines 117-120: os.Rename; on its error (the volume directory is missing,
\* or any other) the call returns the error and leaves the temporary
\* directory.
TearDownRename(podID, fails) ==
    LET run == running[podID]
        r == RenameStep(dirs, run.path, run.tmpDir)
        err == fails \/ ~os_Stat(dirs, run.path)
        c == Call("Rename", run.path, "", {}, err)
    IN  /\ run.pc = "rename"
        /\ IF err
           THEN /\ dirs' = dirs
                /\ running' = [running EXCEPT ![podID] = Returned(podID)]
                /\ last' = TearDownReturns(run, c, "Rename", fails)
           ELSE /\ dirs' = r.dirs
                /\ running' = [running EXCEPT ![podID].pc = "removeAll",
                                              ![podID].tmpDir = r.tmpDir,
                                              ![podID].calls = Append(@, c)]
                /\ last' = NoCall
        /\ ScanTold
        /\ UNCHANGED <<mounts, attached, created>>

\* Line 130: os.RemoveAll unlinks the entries of the tree one after another,
\* the directory itself last; the call then returns nil.
TearDownRemoveOne(podID, d) ==
    LET run == running[podID]
        c == Call("RemoveAll", run.tmpDir, "", {}, FALSE)
    IN  /\ run.pc = "removeAll"
        /\ d \in Removable(dirs, run.tmpDir)
        /\ dirs' = dirs \ {d}
        /\ running' = [running EXCEPT ![podID] =
                          IF d = run.tmpDir THEN Returned(podID) ELSE @]
        /\ last' = IF d = run.tmpDir THEN TearDownReturns(run, c, "nil", FALSE)
                   ELSE NoCall
        /\ ScanTold
        /\ UNCHANGED <<mounts, attached, created>>

\* Lines 131-133: os.RemoveAll returns an error, before its first unlink or
\* after some; the call returns it and what is left of the tree stays.
TearDownRemoveFails(podID) ==
    LET run == running[podID]
        c == Call("RemoveAll", run.tmpDir, "", {}, TRUE)
    IN  /\ run.pc = "removeAll"
        /\ running' = [running EXCEPT ![podID] = Returned(podID)]
        /\ last' = TearDownReturns(run, c, "RemoveAll", TRUE)
        /\ UNCHANGED <<dirs, mounts, attached, scanResult, created>>

\* The agent on a host: every variant, the host's own mounter.  The calls of
\* a TearDown and of a PersistentDisk SetUp are steps of their own, between
\* which those of the other pods fall.
Next ==
    \/ \E e \in EmptyDirs, suffix \in TempSuffixes, fails \in BOOLEAN :
          TearDownTempDir(e, suffix, fails)
    \/ \E podID \in Pods, fails \in BOOLEAN : TearDownRename(podID, fails)
    \/ \E podID \in Pods, d \in dirs : TearDownRemoveOne(podID, d)
    \/ \E podID \in Pods : TearDownRemoveFails(podID)
    \/ \E e \in EmptyDirs, env \in EmptySetUpEnv : EmptySetUp(e, env)
    \/ HostSetUp(createHostDirectory(HostPath))
    \/ \E PD \in PDBuilders : PDSetUpBegin(PD, "live")
    \/ \E PD \in PDTearDownCallers(State) :
          \E rc \in RefCountAnswers(GCEPersistentDisk_GetPath(PD), "live") :
              PDTearDownBegin(PD, rc, "live")
    \/ \E podID \in Pods : PDCallNext(podID, "live")
    \/ \E diskName \in Disks, fails \in AttachDiskFails : CloudAttachDisk(diskName, fails)
    \/ \E devicePath \in Disks, fails \in DetachDiskFails :
          CloudDetachDisk(devicePath, fails)

Spec == Init /\ [][Next]_vars

\* The persistent disk under substituted capabilities, whose answers are free.
NextFake ==
    \/ \E PD \in PDBuilders : PDSetUpBegin(PD, "fake")
    \/ \E PD \in PDTearDownCallers(State) :
          \E rc \in RefCountAnswers(GCEPersistentDisk_GetPath(PD), "fake") :
              PDTearDownBegin(PD, rc, "fake")
    \/ \E podID \in Pods : PDCallNext(podID, "fake")

SpecFake == Init /\ [][NextFake]_vars

(* --------------------------- scan actions ----------------------------- *)

FactoryPodIDs == {PodIDs[i] : i \in 1..(NumPods + 1)}
ScanKindNames == {"empty", "gce-pd", "unknown"}
ScanVolumeNames == {PDVolumeName, EmptyVolumeName}

VolumePath(rootDirectory, podID, kind, name) ==
    path_Join(<<rootDirectory, podID, "volumes", kind, name>>)

\* The volume directories of the tree: root/<podID>/volumes/<kind>/<name>.
VolumeEntries(ds) == {d \in ds : Len(d) = 5 /\ d[1] = RootDir /\ d[3] = "volumes"}

\* The kinds whose volume directory is made by one os.MkdirAll and nothing
\* else: "empty" (EmptyDirectory.SetUp) and a kind this version does not know.
MkdirKinds == ScanKindNames \ {"gce-pd"}

\* A volume directory of such a kind appears under the root.
MkdirVolume(podID, kind, name) ==
    /\ Cardinality(VolumeEntries(dirs)) < MaxScanEntries
    /\ VolumePath(RootDir, podID, kind, name) \notin dirs
    /\ dirs' = os_MkdirAll(dirs, VolumePath(RootDir, podID, kind, name))
    /\ ScanTold
    /\ UNCHANGED <<mounts, attached, last, created, running>>

\* The PersistentDisk volumes set up and torn down while the tree is
\* scanned are those of the first pod.
ScanPDs(PDs) == {PD \in PDs : PD.PodID = PodIDs[1]}

\* The SetUp calls in progress that have yet to make their directory.
SettingUp ==
    {q \in Pods : /\ running[q].pc = "call"
                  /\ running[q].op = "GCEPersistentDisk.SetUp"
                  /\ ~os_Stat(dirs, running[q].path)}

\* A gce-pd volume directory is made by GCEPersistentDisk.SetUp, call by
\* call: AttachDisk, MkdirAll, Mount, and removed again when Mount fails.
ScanSetUp(PD) ==
    /\ Cardinality(VolumeEntries(dirs)) + Cardinality(SettingUp) < MaxScanEntries
    /\ PDSetUpBegin(PD, "scan")

\* One ioutil.ReadDir of a scan (lines 303, 315, 322): the names listed, none
\* when it returned an error.
Listing(p, fails) == ioutil_ReadDir(FileSystem(dirs, IF fails THEN {p} ELSE {}), p)

\* The listings of one scan that return an error are at most
\* MaxListingFailures.
MayFail(fails) == fails => Cardinality(scanResult.unreadable) < MaxListingFailures

\* The scan after a listing: s, or the map returned (line 339) when no
\* directory is left to list.
ScanGoesOn(s) ==
    IF s.pods = <<>> /\ s.kinds = <<>>
    THEN [s EXCEPT !.pc = "idle", !.podID = "", !.scanned = TRUE,
                   !.volumes = s.found, !.found = {}]
    ELSE s

\* s after a listing of p.
Listed(s, p, fails) == [s EXCEPT !.unreadable = IF fails THEN @ \cup {p} ELSE @]

\* Lines 302-306: a scan begins with the listing of the root.
ScanRoot(fails) ==
    /\ scanResult.pc = "idle"
    /\ scanResult' =
          ScanGoesOn(Listed([NoScan EXCEPT !.pc = "scan",
                                           !.pods = Listing(<<RootDir>>, fails)],
                            <<RootDir>>, fails))
    /\ UNCHANGED <<dirs, mounts, attached, last, created, running>>

\* Lines 309-318: the next pod directory, <podID>/volumes listed.
ScanPod(fails) ==
    LET podID == Head(scanResult.pods)
        podIDPath == path_Join(<<RootDir, podID, "volumes">>)
    IN  /\ scanResult.pc = "scan"
        /\ scanResult.kinds = <<>>
        /\ MayFail(fails)
        /\ scanResult' =
              ScanGoesOn(Listed([scanResult EXCEPT !.podID = podID, !.pods = Tail(@),
                                                   !.kinds = Listing(podIDPath, fails)],
                                podIDPath, fails))
        /\ UNCHANGED <<dirs, mounts, attached, last, created, running>>

\* Lines 319-337: the next kind directory of the pod listed, a Cleaner made
\* for each of its names.
ScanKind(fails) ==
    LET volumeKind == Head(scanResult.kinds)
        podIDPath == path_Join(<<RootDir, scanResult.podID, "volumes">>)
        volumeKindPath == path_Join(podIDPath \o <<volumeKind>>)
    IN  /\ scanResult.pc = "scan"
        /\ scanResult.kinds # <<>>
        /\ MayFail(fails)
        /\ scanResult' =
              ScanGoesOn(Listed([scanResult EXCEPT
                                    !.kinds = Tail(@),
                                    !.found = ScanNames(@, Listing(volumeKindPath, fails),
                                                        volumeKind, scanResult.podID,
                                                        RootDir)],
                                volumeKindPath, fails))
        /\ UNCHANGED <<dirs, mounts, attached, last, created, running>>

\* Volume directories made and removed while the tree is scanned, listing by
\* listing: the calls of the PersistentDisk handlers, any of which can
\* return an error, fall between the listings.
NextScan ==
    \/ \E podID \in Pods, kind \in MkdirKinds, name \in ScanVolumeNames :
          MkdirVolume(podID, kind, name)
    \/ \E PD \in ScanPDs(PDBuilders) : ScanSetUp(PD)
    \/ \E PD \in ScanPDs(PDTearDownCallers(State)) :
          \E rc \in RefCountAnswers(GCEPersistentDisk_GetPath(PD), "scan") :
              PDTearDownBegin(PD, rc, "scan")
    \/ \E podID \in Pods : PDCallNext(podID, "scan")
    \/ \E fails \in BOOLEAN : ScanRoot(fails)
    \/ \E fails \in BOOLEAN : ScanPod(fails)
    \/ \E fails \in BOOLEAN : ScanKind(fails)

SpecScan == Init /\ [][NextScan]_vars

(* ------------- EmptyDirectory teardown, unlink by unlink --------------- *)

\* A container of the pod writes into its volume directory.
WriteContent(emptyDir, c) ==
    LET p == EmptyDirectory_GetPath(emptyDir)
    IN  /\ running[emptyDir.PodID].pc = "idle"
        /\ os_Stat(dirs, p)
        /\ p \o c \notin dirs
        /\ dirs' = os_MkdirAll(dirs, p \o c)
        /\ ScanTold
        /\ UNCHANGED <<mounts, attached, last, created, running>>

\* The directories under root/<podID>/volumes/empty that carry a temporary
\* name: those of teardowns in progress and those a teardown left behind.
OrphanPaths(ds) ==
    {EmptyDirectory_GetPath([e EXCEPT !.Name = n]) : e \in EmptyDirs, n \in TempDirNames}
        \cap ds

\* The Cleaners the last scan returned for such directories.
OrphanCleaners ==
    {r.cleaner : r \in {q \in scanResult.volumes :
                          /\ q.cleaner.kind = "empty"
                          /\ EmptyDirectory_GetPath(q.cleaner.vol) \in OrphanPaths(dirs)}}

\* The instances TearDown is called on: the pod's volume, and the Cleaners of
\* the last scan.
StepTearDownCallers == EmptyDirs \cup {c.vol : c \in OrphanCleaners}

\* The agent stops in the middle of a call: what the call had done stays.
Crash(podID) ==
    /\ running[podID].pc # "idle"
    /\ running' = [running EXCEPT ![podID] = Idle]
    /\ UNCHANGED <<dirs, mounts, attached, last, scanResult, created>>

\* One pod's volume and what its teardowns leave: the steps of a teardown, of
\* the volume or of a directory a scan found, with the listings of scans and
\* crashes between them; the calls of one pod come one after another.
NextEmptySteps ==
    \/ \E e \in EmptyDirs, env \in EmptySetUpEnv : EmptySetUp(e, env)
    \/ \E e \in EmptyDirs, c \in Contents : WriteContent(e, c)
    \/ \E e \in StepTearDownCallers, suffix \in TempSuffixes, fails \in BOOLEAN :
          TearDownTempDir(e, suffix, fails)
    \/ \E podID \in Pods, fails \in BOOLEAN : TearDownRename(podID, fails)
    \/ \E podID \in Pods, d \in dirs : TearDownRemoveOne(podID, d)
    \/ \E podID \in Pods : TearDownRemoveFails(podID)
    \/ \E podID \in Pods : Crash(podID)
    \/ \E fails \in BOOLEAN : ScanRoot(fails)
    \/ \E fails \in BOOLEAN : ScanPod(fails)
    \/ \E fails \in BOOLEAN : ScanKind(fails)

SpecEmptySteps == Init /\ [][NextEmptySteps]_vars

(* ------------- PersistentDisk calls of the pods, no lock --------------- *)

Quiescent == \A podID \in Pods : ~InProgress(podID)

\* Pods setting their disks up and tearing them down with no lock: the calls
\* of their handlers interleave freely and any of them can return an error.
\* Each pod keeps its last TearDown and whether a call of it has failed.
NextRace ==
    \/ \E PD \in PDBuilders : PDSetUpBegin(PD, "race")
    \/ \E PD \in PDTearDownCallers(State) :
          \E rc \in RefCountAnswers(GCEPersistentDisk_GetPath(PD), "race") :
              PDTearDownBegin(PD, rc, "race")
    \/ \E podID \in Pods : PDCallNext(podID, "race")

SpecRace == Init /\ [][NextRace]_vars

(* -------------------------- factory actions --------------------------- *)

\* The sources a volume specification can carry: nil, or any combination of
\* the three pointers set.
ApiSources ==
    {NilSource} \cup
    [nil : {FALSE},
     HostDirectory : {NilHostDirectory, [nil |-> FALSE, Path |-> HostPath]},
     EmptyDirectory : {NilEmptyDirectory, [nil |-> FALSE]},
     GCEPersistentDisk : {NilGCEPersistentDisk} \cup
                         [nil : {FALSE}, PDName : Disks, ReadOnly : BOOLEAN]]

ApiVolumes == [Name : ScanVolumeNames, Source : ApiSources]

BuildVolume(volume, podID, rootDir) ==
    /\ created' = [op |-> "CreateVolumeBuilder", volume |-> volume, podID |-> podID,
                   rootDir |-> rootDir,
                   result |-> CreateVolumeBuilder(volume, podID, rootDir)]
    /\ UNCHANGED <<dirs, mounts, attached, last, scanResult, running>>

CleanVolume(kind, name, podID, rootDir) ==
    /\ created' = [op |-> "CreateVolumeCleaner", kind |-> kind, name |-> name,
                   podID |-> podID, rootDir |-> rootDir,
                   result |-> CreateVolumeCleaner(kind, name, podID, rootDir)]
    /\ UNCHANGED <<dirs, mounts, attached, last, scanResult, running>>

LegacyTypes == {"HOST", "host", "EMPTY", ""}
LegacyPaths == {"/dir/path", "/", ""}

LegacyVolumes == [Name : {"host-dir"}, Type : LegacyTypes, Path : LegacyPaths]

LegacyCreateVolume(volume) ==
    /\ created' = [op |-> "CreateVolume", volume |-> volume,
                   result |-> CreateVolume(volume)]
    /\ UNCHANGED <<dirs, mounts, attached, last, scanResult, running>>

NextFactory ==
    \/ \E volume \in LegacyVolumes : LegacyCreateVolume(volume)
    \/ \E volume \in ApiVolumes, podID \in FactoryPodIDs : BuildVolume(volume, podID, RootDir)
    \/ \E kind \in ScanKindNames, name \in ScanVolumeNames, podID \in FactoryPodIDs :
          CleanVolume(kind, name, podID, RootDir)

SpecFactory == Init /\ [][NextFactory]_vars

(* ----------------------- teardown after a restart --------------------- *)

\* The agent starts again: the calls in progress end where they stand, the
\* instances are forgotten and the volumes are to be found by a scan of the
\* tree.
Restart ==
    /\ scanResult' = NoScan
    /\ running' = [podID \in Pods |-> Returned(podID)]
    /\ UNCHANGED <<dirs, mounts, attached, last, created>>

\* The PersistentDisk Cleaners the last scan returned.
ScannedCleaners ==
    {r.cleaner.vol : r \in {x \in scanResult.volumes : x.cleaner.kind = "gce-pd"}}

\* Who tears a volume down: the Builder that bound the disk now mounted at
\* its path, or a Cleaner GetCurrentVolumes returned.
RestartTearDownCallers ==
    ScannedCleaners \cup
    {b \in PDBuilders : b.PDName = MountedDevice(State, GCEPersistentDisk_GetPath(b))}

\* Builders set volumes up and tear them down, the agent restarts, scans
\* the tree and tears down through the Cleaners found; each pod keeps its
\* last TearDown by a Builder and the Cleaner's that began as it did.
NextRestart ==
    \/ \E PD \in PDBuilders : PDSetUpBegin(PD, "restart")
    \/ \E PD \in RestartTearDownCallers :
          \E rc \in RefCountAnswers(GCEPersistentDisk_GetPath(PD), "restart") :
              PDTearDownBegin(PD, rc, "restart")
    \/ \E podID \in Pods : PDCallNext(podID, "restart")
    \/ Restart
    \/ \E fails \in BOOLEAN : ScanRoot(fails)
    \/ \E fails \in BOOLEAN : ScanPod(fails)
    \/ \E fails \in BOOLEAN : ScanKind(fails)

SpecRestart == Init /\ [][NextRestart]_vars

(* ------------------------------ claims -------------------------------- *)

PDSetUpOp == "GCEPersistentDisk.SetUp"
PDTearDownOp == "GCEPersistentDisk.TearDown"

Made(fn) == \E i \in DOMAIN last.calls : last.calls[i].fn = fn

MadeNext(fn) == \E i \in DOMAIN last'.calls : last'.calls[i].fn = fn

BindMounted(p) == \E m \in mounts : m.target = p

\* No call has overlapped a call of another pod, and the cloud provider has
\* been called by the handlers only.
Serialized == \A podID \in Pods : ~running[podID].raced

\* The last call ran with no call of another pod in progress and no direct
\* call of the cloud provider within it.
RanAlone == ~last.raced

\* The disks attached are those attached when the last call began: said of a
\* call that ran alone, a call of another pod attaching and detaching too.
AttachedAsBefore == RanAlone => attached = last.pre.attached

\* The last call was a PersistentDisk TearDown that returned success on a
\* path bind mounted with `binds` bind mounts of its disk, RefCount having
\* answered `count`.
SharedTearDown(binds, count) ==
    /\ last.op = PDTearDownOp
    /\ last.ret = "nil"
    /\ last.pre.dev # NoDevice
    /\ last.pre.binds = binds
    /\ last.refCount = count

\* C1 as stated: with two bind mounts of the disk and RefCount answering 2,
\* TearDown makes no DetachDisk call and leaves the attached disks as they
\* were; with one bind mount and RefCount answering 1, it detaches the disk.
C1_AsStated ==
    /\ SharedTearDown(2, 2) => ~Made("DetachDisk") /\ AttachedAsBefore
    /\ SharedTearDown(1, 1) => Made("DetachDisk") /\ last.pre.dev \notin attached

\* C1 amended: the count RefCount reports includes the global mount.  With
\* two bind mounts and RefCount answering 3, TearDown makes no DetachDisk call
\* and leaves the attached disks as they were; with one bind mount and
\* RefCount answering 2, it calls DetachDisk and the device is detached.
C1_SharedDiskTeardown ==
    /\ SharedTearDown(2, 3) => ~Made("DetachDisk") /\ AttachedAsBefore
    /\ SharedTearDown(1, 2) => Made("DetachDisk") /\ last.pre.dev \notin attached

C1_Witness ==
    /\ SharedTearDown(1, 2)
    /\ last.pre.dev \in last.pre.attached
    /\ Made("DetachDisk")
    /\ last.pre.dev \notin attached

\* C2: on a host (the live mounter), as long as the calls have been
\* serialized and no one else has attached or detached, every present bind
\* mount is of an attached disk, also between the calls of a SetUp or
\* TearDown, and a DetachDisk call is only ever made for a device that no
\* bind mount is left of.
C2_NoPrematureDetach ==
    Serialized
        => /\ \A m \in mounts : m.dev \in attached
           /\ last.op = PDTearDownOp /\ Made("DetachDisk")
                 => \A m \in mounts, i \in DOMAIN last.calls :
                        last.calls[i].fn = "DetachDisk" => m.dev # last.calls[i].dev

C2_Witness ==
    /\ Serialized
    /\ last.op = PDTearDownOp
    /\ last.ret = "nil"
    /\ last.pre.binds = 2
    /\ ~Made("DetachDisk")
    /\ \E m \in mounts : m.dev = last.pre.dev /\ m.dev \in attached

\* C3: when RefCount, Unmount and the directory removal of a TearDown all
\* succeed, DetachDisk is called, with the device RefCount returned, exactly
\* when the count RefCount returned minus one is 1.
C3_DetachRule ==
    last.op = PDTearDownOp /\ last.ret \in {"nil", "DetachDisk"}
        => /\ Made("DetachDisk") <=> (last.refCount - 1 = 1)
           /\ \A i \in DOMAIN last.calls :
                 last.calls[i].fn = "DetachDisk" => last.calls[i].dev = last.pre.dev
           /\ last.refCount - 1 > 1 => AttachedAsBefore

C3_Witness ==
    /\ last.op = PDTearDownOp
    /\ last.ret = "nil"
    /\ last.refCount = 3
    /\ last.pre.dev # NoDevice
    /\ ~Made("DetachDisk")
    /\ attached # {}

EmptySetUpOp == "EmptyDirectory.SetUp"
EmptyTearDownOp == "EmptyDirectory.TearDown"
HostSetUpOp == "HostDirectory.SetUp"

HostUnchanged == UNCHANGED <<dirs, mounts, attached>>

\* C4: a successful SetUp of a pod's volume leaves its canonical path in
\* place, and a SetUp that finds the path in place (no TearDown since) returns
\* success and changes no directory, mount or attachment; a HostDirectory
\* SetUp always does; and a PersistentDisk SetUp whose canonical path exists
\* makes no call at all (no AttachDisk, no MkdirAll, no Mount).
C4_SetUpIdempotent ==
    [][/\ (last'.op \in {PDSetUpOp, EmptySetUpOp} /\ last'.ret = "nil")
          => os_Stat(dirs', last'.path)
       /\ (last'.op \in {PDSetUpOp, EmptySetUpOp} /\ last'.pre.exists)
          => last'.ret = "nil" /\ HostUnchanged
       /\ last'.op = HostSetUpOp
          => last'.ret = "nil" /\ HostUnchanged
       /\ (last'.op = PDSetUpOp /\ last'.pre.exists)
          => last'.calls = <<>>]_vars

C4_Witness ==
    /\ last.op = PDSetUpOp
    /\ last.pre.exists
    /\ last.pre.dev # NoDevice
    /\ last.ret = "nil"
    /\ last.calls = <<>>
    /\ BindMounted(last.path)

\* C5: a TearDown of a volume whose canonical path is absent and not bind
\* mounted, with no failure injected into any call, returns success
\* (EmptyDirectory and PersistentDisk).
C5_TearDownIdempotent ==
    (/\ last.op \in {EmptyTearDownOp, PDTearDownOp}
     /\ ~last.pre.exists
     /\ last.pre.dev = NoDevice
     /\ ~last.injected)
        => last.ret = "nil"

\* The call `fn` of the next call record returned an error.
FailedNext(fn) ==
    \E i \in DOMAIN last'.calls : last'.calls[i].fn = fn /\ last'.calls[i].err

\* C6: a PersistentDisk TearDown in which RefCount or Unmount fails returns
\* that error, the failed call being its last one: it has changed no
\* directory, mount or attachment, and has made no RemoveAll and no
\* DetachDisk call.
C6_TearDownAbortFrame ==
    [][(last'.op = PDTearDownOp /\ (FailedNext("RefCount") \/ FailedNext("Unmount")))
          => /\ last'.ret \in {"RefCount", "Unmount"}
             /\ last'.calls[Len(last'.calls)].fn = last'.ret
             /\ last'.calls[Len(last'.calls)].err
             /\ HostUnchanged
             /\ ~MadeNext("RemoveAll")
             /\ ~MadeNext("DetachDisk")]_vars

C6_Witness ==
    /\ last.op = PDTearDownOp
    /\ last.ret = "Unmount"
    /\ last.pre.exists
    /\ last.pre.dev # NoDevice
    /\ BindMounted(last.path)
    /\ os_Stat(dirs, last.path)

\* The disk a SetUp asked AttachDisk for.
AttachedBySetUp == last.calls[1].dev

\* The RemoveAll of the last call returned an error.
RemoveFailed ==
    \E i \in DOMAIN last.calls : last.calls[i].fn = "RemoveAll" /\ last.calls[i].err

\* C7 as stated: after a SetUp whose Mount failed, RemoveAll was called, no
\* DetachDisk was, the disk is attached and the canonical path does not exist.
C7_AsStated ==
    (last.op = PDSetUpOp /\ last.ret = "Mount")
        => /\ Made("RemoveAll")
           /\ ~Made("DetachDisk")
           /\ RanAlone => AttachedBySetUp \in attached
           /\ ~os_Stat(dirs, last.path)

\* C7 amended: after a SetUp whose Mount failed, AttachDisk, MkdirAll, Mount
\* and RemoveAll of the canonical path were called in this order and no
\* DetachDisk; the error returned is Mount's, the disk is attached, the path
\* is not bind mounted, and the canonical path is absent exactly when that
\* RemoveAll succeeded (its error is dropped and leaves the directory).
C7_MountFailureRollback ==
    (last.op = PDSetUpOp /\ last.ret = "Mount")
        => /\ [i \in DOMAIN last.calls |-> last.calls[i].fn]
                 = <<"AttachDisk", "MkdirAll", "Mount", "RemoveAll">>
           /\ last.calls[4].path = last.path
           /\ ~Made("DetachDisk")
           /\ RanAlone => attached = last.pre.attached \cup {AttachedBySetUp}
           /\ ~BindMounted(last.path)
           /\ os_Stat(dirs, last.path) <=> RemoveFailed

C7_Witness ==
    /\ last.op = PDSetUpOp
    /\ last.ret = "Mount"
    /\ ~last.pre.exists
    /\ ~RemoveFailed
    /\ ~os_Stat(dirs, last.path)
    /\ AttachedBySetUp \in attached

\* C8: after a SetUp whose AttachDisk failed, that error is returned,
\* AttachDisk is the only call made (no MkdirAll, no Mount), the canonical
\* path does not exist and nothing is attached or mounted that was not.
C8_AttachFailure ==
    (last.op = PDSetUpOp /\ Made("AttachDisk") /\ last.calls[1].err)
        => /\ last.ret = "AttachDisk"
           /\ Len(last.calls) = 1
           /\ ~os_Stat(dirs, last.path)
           /\ ~BindMounted(last.path)
           /\ AttachedAsBefore

C8_Witness ==
    /\ last.op = PDSetUpOp
    /\ last.ret = "AttachDisk"
    /\ ~os_Stat(dirs, last.path)
    /\ AttachedBySetUp \notin attached

\* The last call was a PersistentDisk TearDown of a path that existed and was
\* bind mounted.
TearDownOfMounted ==
    last.op = PDTearDownOp /\ last.pre.exists /\ last.pre.dev # NoDevice

\* C9 as stated: whenever such a TearDown returns an error, the bind mount is
\* still present and the directory still exists.
C9_AsStated ==
    (TearDownOfMounted /\ last.ret # "nil")
        => BindMounted(last.path) /\ os_Stat(dirs, last.path)

\* C9 amended: the mount point is intact after an error of RefCount or of
\* Unmount; an error of the directory removal is returned with the bind mount
\* gone and the directory left, and an error of DetachDisk with both gone and
\* the attached disks as they were.
C9_FailSafe ==
    TearDownOfMounted
        => /\ last.ret \in {"RefCount", "Unmount"}
                 => BindMounted(last.path) /\ os_Stat(dirs, last.path)
           /\ last.ret = "RemoveAll"
                 => ~BindMounted(last.path) /\ os_Stat(dirs, last.path)
           /\ last.ret = "DetachDisk"
                 => /\ ~BindMounted(last.path)
                    /\ ~os_Stat(dirs, last.path)
                    /\ AttachedAsBefore

C9_Witness ==
    /\ TearDownOfMounted
    /\ last.ret = "DetachDisk"
    /\ ~BindMounted(last.path)
    /\ last.pre.dev \in attached

SupportedKinds == {"empty", "gce-pd"}

\* The Cleaner the scan returned for a volume directory: the one under the
\* key <podID>/<name>, of the directory's kind and identity.
CleanerOf(d) ==
    {r \in scanResult.volumes :
        /\ r.key = VolumeIdentifier(d[2], d[5])
        /\ r.cleaner.kind = d[4]
        /\ r.cleaner.vol.Name = d[5]
        /\ r.cleaner.vol.PodID = d[2]
        /\ r.cleaner.vol.RootDir = d[1]}

SupportedEntries == {d \in VolumeEntries(dirs) : d[4] \in SupportedKinds}

\* A scan has returned, and no directory was made, renamed or removed since
\* it began: every listing met the tree as it is.
ScannedStill == scanResult.scanned /\ ~scanResult.moved

\* The listings of such a scan, taken one by one, return what
\* GetCurrentVolumes returns of the tree.
ScanAsWhole ==
    ScannedStill
        => scanResult.volumes
              = GetCurrentVolumes(FileSystem(dirs, scanResult.unreadable), RootDir)

\* C10: after a scan of a tree that stood still, in which every listing
\* succeeded, every volume directory of kind empty or gce-pd has exactly one
\* Cleaner, keyed <podID>/<name> and of its kind, and nothing else is
\* returned: as many Cleaners as there are such directories.
C10_OneCleanerPerEntry ==
    (ScannedStill /\ scanResult.unreadable = {})
        => /\ \A d \in SupportedEntries : Cardinality(CleanerOf(d)) = 1
           /\ Cardinality(scanResult.volumes) = Cardinality(SupportedEntries)

\* Two volume directories of one pod with the same name, of different kinds.
KeyCollision ==
    \E d, e \in SupportedEntries : d # e /\ d[2] = e[2] /\ d[5] = e[5]

\* Apart from such collisions the scan is as C10 states.
ScanWithoutCollision == KeyCollision \/ C10_OneCleanerPerEntry

\* No directory listed on the way to a volume directory failed to list.
Readable(d) == \A i \in {1, 3, 4} : SubSeq(d, 1, i) \notin scanResult.unreadable

\* C11: after a scan of a tree that stood still, in which the listing of a
\* directory failed, the volume directories below that directory have no
\* Cleaner, and every volume directory of a supported kind elsewhere has its
\* Cleaner.
C11_BestEffort ==
    (ScannedStill /\ scanResult.unreadable # {})
        => \A d \in SupportedEntries :
              IF Readable(d) THEN CleanerOf(d) # {} ELSE CleanerOf(d) = {}

\* Apart from key collisions the scan is as C11 states.
BestEffortWithoutCollision == KeyCollision \/ C11_BestEffort

\* The pointers of a source in the order host-directory, empty-directory,
\* persistent-disk, and the first of them that is populated (0 for none).
SourceOrder(source) ==
    <<~source.HostDirectory.nil, ~source.EmptyDirectory.nil, ~source.GCEPersistentDisk.nil>>

FirstPopulated(source) ==
    IF \E i \in 1..3 : SourceOrder(source)[i]
    THEN CHOOSE i \in 1..3 :
            SourceOrder(source)[i] /\ \A j \in 1..(i - 1) : ~SourceOrder(source)[j]
    ELSE 0

\* The Builder the specification's reference function names for a volume.
ReferenceBuilder(volume, podID, rootDir) ==
    CASE volume.Source.nil -> [kind |-> "", err |-> "nil"]
      [] ~volume.Source.nil /\ FirstPopulated(volume.Source) = 0 ->
            [kind |-> "", err |-> "ErrUnsupportedVolumeType"]
      [] ~volume.Source.nil /\ FirstPopulated(volume.Source) = 1 ->
            [kind |-> "host", err |-> "nil", Path |-> volume.Source.HostDirectory.Path]
      [] ~volume.Source.nil /\ FirstPopulated(volume.Source) = 2 ->
            [kind |-> "empty", err |-> "nil", Name |-> volume.Name, PodID |-> podID,
             RootDir |-> rootDir]
      [] ~volume.Source.nil /\ FirstPopulated(volume.Source) = 3 ->
            [kind |-> "gce-pd", err |-> "nil", Name |-> volume.Name, PodID |-> podID,
             RootDir |-> rootDir, PDName |-> volume.Source.GCEPersistentDisk.PDName,
             ReadOnly |-> volume.Source.GCEPersistentDisk.ReadOnly]

\* A factory result flattened to its kind, its error and the fields of the
\* volume built.
Flat(result) ==
    CASE result.kind = "" -> [kind |-> "", err |-> result.err]
      [] result.kind = "host" ->
            [kind |-> "host", err |-> result.err, Path |-> result.vol.Path]
      [] result.kind = "empty" ->
            [kind |-> "empty", err |-> result.err, Name |-> result.vol.Name,
             PodID |-> result.vol.PodID, RootDir |-> result.vol.RootDir]
      [] result.kind = "gce-pd" ->
            [kind |-> "gce-pd", err |-> result.err, Name |-> result.vol.Name,
             PodID |-> result.vol.PodID, RootDir |-> result.vol.RootDir,
             PDName |-> result.vol.PDName, ReadOnly |-> result.vol.ReadOnly]

\* C12: CreateVolumeBuilder returns what the reference function names: nothing
\* and no error for a nil source, the variant of the first populated source in
\* the order host-directory, empty-directory, persistent-disk, and
\* ErrUnsupportedVolumeType when none is populated.
C12_BuilderReference ==
    created.op = "CreateVolumeBuilder"
        => Flat(created.result)
              = ReferenceBuilder(created.volume, created.podID, created.rootDir)

C12_Witness ==
    /\ created.op = "CreateVolumeBuilder"
    /\ ~created.volume.Source.HostDirectory.nil
    /\ ~created.volume.Source.EmptyDirectory.nil
    /\ ~created.volume.Source.GCEPersistentDisk.nil
    /\ created.result.kind = "host"
    /\ created.result.err = "nil"

\* C18: the legacy CreateVolume returns, for a specification of type "HOST",
\* a volume whose GetPath is the specification's Path and no error; for any
\* other type it returns no volume and an error.
C18_LegacyCreateVolume ==
    created.op = "CreateVolume"
        => IF created.volume.Type = "HOST"
           THEN /\ ~created.result.nil
                /\ created.result.err = "nil"
                /\ HostDirectoryVolume_GetPath(created.result.vol) = created.volume.Path
           ELSE created.result.nil /\ created.result.err # "nil"

C18_Witness ==
    /\ created.op = "CreateVolume"
    /\ created.volume.Type = "HOST"
    /\ created.volume.Path = "/dir/path"
    /\ ~created.result.nil
    /\ HostDirectoryVolume_GetPath(created.result.vol) = "/dir/path"

\* GetPath of a Builder or Cleaner of a supported kind.
GetPathOf(c) ==
    IF c.kind = "empty" THEN EmptyDirectory_GetPath(c.vol)
    ELSE GCEPersistentDisk_GetPath(c.vol)

\* The Builders of the pod-scoped kinds, for every identity and every
\* provider attribute.
ScopedBuilders ==
    {b \in {CreateVolumeBuilder(v, podID, RootDir) : v \in ApiVolumes, podID \in FactoryPodIDs} :
        b.kind \in SupportedKinds}

SameIdentity(b, c) ==
    /\ b.kind = c.kind
    /\ b.vol.RootDir = c.vol.RootDir
    /\ b.vol.PodID = c.vol.PodID
    /\ b.vol.Name = c.vol.Name

\* The Cleaner line 330 makes from a volume directory.
Reconstructed(d) ==
    LET c == CreateVolumeCleaner(d[4], d[5], d[2], d[1])
    IN  [kind |-> c.kind, vol |-> c.vol]

\* A path root/<podID>/volumes/<kind>/<name> of a supported kind.
IsVolumePath(d) ==
    Len(d) = 5 /\ d[1] = RootDir /\ d[3] = "volumes" /\ d[4] \in SupportedKinds

\* C13: a Builder's GetPath is root/podID/volumes/kind/name; every Cleaner a
\* scan returns, also one of a tree that changed between the listings, has a
\* GetPath of that form and is the Cleaner made from the podID, kind and name
\* of its GetPath; when the tree stood still that path is a readable volume
\* directory of the tree; and it is the GetPath of exactly the Builders of
\* the same kind, podID and name, whatever their provider attributes.
C13_PathRoundTrip ==
    /\ \A b \in ScopedBuilders :
          GetPathOf(b) = <<b.vol.RootDir, b.vol.PodID, "volumes", b.kind, b.vol.Name>>
    /\ scanResult.scanned
          => \A r \in scanResult.volumes :
                /\ IsVolumePath(GetPathOf(r.cleaner))
                /\ r.cleaner = Reconstructed(GetPathOf(r.cleaner))
                /\ ScannedStill
                      => \E d \in SupportedEntries :
                            Readable(d) /\ GetPathOf(r.cleaner) = d
                /\ \A b \in ScopedBuilders :
                      SameIdentity(b, r.cleaner) <=> GetPathOf(b) = GetPathOf(r.cleaner)

C13_Witness ==
    /\ scanResult.scanned
    /\ \E r \in scanResult.volumes, b \in ScopedBuilders :
          /\ r.cleaner.kind = "gce-pd"
          /\ b.kind = "gce-pd"
          /\ b.vol.PDName = DiskNames[1]
          /\ r.cleaner.vol.PDName # b.vol.PDName
          /\ GetPathOf(b) = GetPathOf(r.cleaner)
          /\ GetPathOf(b) \in dirs

\* What a lister of the parent directory finds of a volume directory that is
\* being torn down: all it held when the teardown began, or no directory.
ObservedWhole(run, ds) ==
    run.pc # "idle" => (os_Stat(ds, run.path) => Content(ds, run.path) = run.snapshot)

\* What is left of the contents of a volume being torn down, under either name.
Remaining(run, ds) == Content(ds, run.path) \cup Content(ds, run.tmpDir)

\* C14: at every step of an EmptyDirectory teardown the canonical directory is
\* there with everything it held or not there at all, and a step that removes
\* some of the contents is taken only after the rename, when the canonical
\* directory is gone.
C14_TearDownAtomic ==
    [][\A podID \in Pods :
          /\ ObservedWhole(running'[podID], dirs')
          /\ (/\ running[podID].pc # "idle"
              /\ Remaining(running[podID], dirs') # Remaining(running[podID], dirs))
                => running[podID].pc = "removeAll" /\ ~os_Stat(dirs, running[podID].path)]_vars

C14_Witness ==
    \E podID \in Pods :
        /\ running[podID].pc = "removeAll"
        /\ running[podID].snapshot # {}
        /\ Content(dirs, running[podID].tmpDir) # running[podID].snapshot
        /\ Content(dirs, running[podID].tmpDir) # {}
        /\ ~os_Stat(dirs, running[podID].path)

\* The tree without what its orphans hold.
LiveDirs(ds) == {d \in ds : \A o \in OrphanPaths(ds) : ~IsPrefix(o, d)}

\* The Cleaners of a scan result that are not those of orphans of the tree.
LiveVolumes(volumes, ds) ==
    {r \in volumes : EmptyDirectory_GetPath(r.cleaner.vol) \notin OrphanPaths(ds)}

\* C17: a scan of a tree that holds orphaned <name>.deleting~ directories,
\* when its last listing returns and none has failed, returns for the other
\* volume directories what it returns without the orphans, a Cleaner for
\* every one of them, and an EmptyDirectory Cleaner for each orphan, also for
\* one a teardown in progress has just renamed; the TearDown of such a
\* Cleaner, when it returns with no call made to fail, returns success and
\* has removed the orphan with all it held, and nothing else.
C17_OrphanTolerated ==
    [][/\ (~scanResult.scanned /\ scanResult'.scanned /\ scanResult'.unreadable = {})
             => /\ LiveVolumes(scanResult'.volumes, dirs)
                      = GetCurrentVolumes(FileSystem(LiveDirs(dirs), {}), RootDir)
                /\ \A d \in VolumeEntries(LiveDirs(dirs)) :
                      d[4] \in SupportedKinds
                          => \E r \in scanResult'.volumes :
                                /\ r.cleaner.kind = d[4]
                                /\ GetPathOf(r.cleaner) = d
                /\ \A o \in OrphanPaths(dirs) :
                      \E r \in scanResult'.volumes :
                          /\ r.key = VolumeIdentifier(o[2], o[5])
                          /\ r.cleaner.kind = "empty"
                          /\ EmptyDirectory_GetPath(r.cleaner.vol) = o
       /\ \A podID \in Pods :
             (/\ running[podID].pc # "idle"
              /\ running[podID].path \in OrphanPaths(running[podID].before)
              /\ last' # last
              /\ last'.op = EmptyTearDownOp
              /\ ~last'.injected)
                => /\ last'.path = running[podID].path
                   /\ last'.ret = "nil"
                   /\ dirs' = os_RemoveAll(running[podID].before, last'.path)]_vars

C17_Witness ==
    /\ last.op = EmptyTearDownOp
    /\ last.ret = "nil"
    /\ last.pre.exists
    /\ scanResult.scanned
    /\ \E r, q \in scanResult.volumes :
          /\ EmptyDirectory_GetPath(r.cleaner.vol) = last.path
          /\ r.cleaner.vol.Name # EmptyVolumeName
          /\ q.cleaner.vol.Name = EmptyVolumeName
    /\ \A d \in dirs : ~IsPrefix(last.path, d)

\* The PersistentDisk TearDown of the pod, which has made more than one
\* call, returns in this step; Torn is its record.
Completes(podID) ==
    /\ running[podID].pc = "call"
    /\ running[podID].op = PDTearDownOp
    /\ running'[podID].pc = "idle"

Torn(podID) == running[podID].done.torn

BindsOf(mts, dev) == {mt \in mts : mt.dev = dev}

\* The DetachDisk calls of a call that has returned.
Detaches(rec) == {i \in DOMAIN rec.calls : rec.calls[i].fn = "DetachDisk"}

\* The call unmounted its path.
Unmounted(rec) ==
    \E i \in DOMAIN rec.calls : rec.calls[i].fn = "Unmount" /\ ~rec.calls[i].err

\* No call of a pod has returned an error.
NoFailure == \A podID \in Pods : ~running[podID].failed

\* The teardowns P and Q of two pods were those of the last two bind mounts
\* of one disk and each read the count, 3, while the bind mount of the other
\* was still in place: both read it before either unmounted.
RacedPair(P, Q) ==
    /\ P.op = PDTearDownOp /\ Q.op = PDTearDownOp
    /\ P.path # Q.path
    /\ P.pre.dev # NoDevice /\ P.pre.dev = Q.pre.dev
    /\ P.refCount = 3 /\ Q.refCount = 3
    /\ P.pre.counted = {P.path, Q.path} /\ Q.pre.counted = P.pre.counted
    /\ Unmounted(P) /\ Unmounted(Q)

\* No call of a third pod has fallen within a call of another.
PairAlone(p, q) == \A o \in Pods \ {p, q} : ~running[o].raced /\ ~InProgress(o)

\* The race of the claim: when the second of two such teardowns returns,
\* neither has called DetachDisk, and the disk is attached with no bind
\* mount left.
TearDownRaceLeak ==
    \A p, q \in Pods :
        (/\ p # q
         /\ Completes(p)
         /\ ~InProgress(q)
         /\ PairAlone(p, q)
         /\ RacedPair(Torn(p)', Torn(q)))
            => /\ Detaches(Torn(p)') = {} /\ Detaches(Torn(q)) = {}
               /\ Torn(p)'.pre.dev \in attached'
               /\ BindsOf(mounts', Torn(p)'.pre.dev) = {}

\* The TearDown that returns has unmounted the last bind mount of its disk.
TornLast(p) ==
    /\ Completes(p)
    /\ Unmounted(Torn(p)')
    /\ Torn(p)'.pre.dev # NoDevice
    /\ BindsOf(mounts', Torn(p)'.pre.dev) = {}

\* C15 as stated: the race leaves the disk attached with no bind mount, and
\* while no two calls have overlapped a TearDown that has unmounted the last
\* bind mount of a disk leaves the disk detached, with at most one
\* DetachDisk call.
C15_AsStated ==
    [][/\ TearDownRaceLeak
       /\ Serialized'
             => \A p \in Pods :
                   TornLast(p)
                      => /\ Torn(p)'.pre.dev \notin attached'
                         /\ Cardinality(Detaches(Torn(p)')) <= 1]_vars

\* C15 amended: when the teardowns of the last two pods of a disk have both
\* read the count before either unmounted, both saw a decremented count of 2,
\* neither calls DetachDisk, and when the second returns the disk is
\* attached with no bind mount left.  While no two calls have overlapped, a
\* TearDown that has unmounted the last bind mount of a disk and returns
\* success has called DetachDisk once and the disk is detached; one in which
\* RemoveAll or DetachDisk returns an error leaves the disk attached with no
\* bind mount left; and no TearDown calls DetachDisk more than once.
C15_TearDownRace ==
    [][/\ TearDownRaceLeak
       /\ \A p \in Pods :
             Completes(p) => Cardinality(Detaches(Torn(p)')) <= 1
       /\ Serialized'
             => \A p \in Pods :
                   TornLast(p)
                      => IF Torn(p)'.ret = "nil"
                         THEN /\ Cardinality(Detaches(Torn(p)')) = 1
                              /\ Torn(p)'.pre.dev \notin attached'
                         ELSE /\ Torn(p)'.ret \in {"RemoveAll", "DetachDisk"}
                              /\ Torn(p)'.pre.dev \in attached']_vars

C15_Witness ==
    \E p, q \in Pods :
        /\ p # q
        /\ Quiescent
        /\ RacedPair(Torn(p), Torn(q))
        /\ Torn(p).ret = "nil" /\ Torn(q).ret = "nil"
        /\ Detaches(Torn(p)) = {} /\ Detaches(Torn(q)) = {}
        /\ Torn(p).pre.dev \in attached
        /\ BindsOf(mounts, Torn(p).pre.dev) = {}

\* A serialized TearDown of the last bind mount of a disk in which DetachDisk
\* returned an error: the disk is attached with no bind mount left.
C15_SerializedLeak ==
    \E p \in Pods :
        /\ Serialized
        /\ Quiescent
        /\ Torn(p).ret = "DetachDisk"
        /\ Torn(p).pre.binds = 1
        /\ Torn(p).pre.dev \in attached
        /\ BindsOf(mounts, Torn(p).pre.dev) = {}

\* C16: while calls are serialized and none has returned an error, a
\* TearDown that returns calls DetachDisk exactly when it was the teardown
\* of the last bind mount of its disk, it calls it once and the disk is
\* detached by that call, any other TearDown leaves the attached disks as
\* they were, and between calls a disk no pod has a bind mount of is not
\* attached.
C16_EventualDetach ==
    [][(Serialized' /\ NoFailure')
          => /\ \A p \in Pods :
                   Completes(p)
                      => /\ Detaches(Torn(p)') # {} <=> Torn(p)'.pre.binds = 1
                         /\ Detaches(Torn(p)') # {} <=> TornLast(p)
                         /\ Detaches(Torn(p)') # {}
                               => /\ Cardinality(Detaches(Torn(p)')) = 1
                                  /\ Torn(p)'.pre.dev \in attached
                                  /\ attached' = attached \ {Torn(p)'.pre.dev}
                         /\ Detaches(Torn(p)') = {} => attached' = attached
             /\ Quiescent' => \A d \in Disks : BindsOf(mounts', d) = {} => d \notin attached']_vars

\* Two pods had bind mounts of the disk; the TearDown of the first left it
\* attached, that of the second has detached it.
C16_Witness ==
    /\ Serialized
    /\ NoFailure
    /\ Quiescent
    /\ attached = {}
    /\ mounts = {}
    /\ \E p, q \in Pods :
          /\ Torn(q).ret = "nil" /\ Torn(q).refCount = 3 /\ Detaches(Torn(q)) = {}
          /\ Torn(p).ret = "nil" /\ Torn(p).refCount = 2
          /\ Cardinality(Detaches(Torn(p))) = 1
          /\ Torn(p).pre.dev = Torn(q).pre.dev

\* The steps of a PersistentDisk teardown, in their order.
TearDownOrder == <<"RefCount", "Unmount", "RemoveAll", "DetachDisk">>

\* C19: the calls of every PersistentDisk TearDown are a beginning of
\* RefCount, Unmount, RemoveAll, DetachDisk in this order, every call but the
\* last having succeeded; RefCount is asked once, before the Unmount, and
\* DetachDisk follows the removal exactly when the count it answered, minus
\* one, is 1.
C19_StepOrder ==
    last.op = PDTearDownOp
        => /\ Len(last.calls) \in 1..4
           /\ \A i \in DOMAIN last.calls :
                 /\ last.calls[i].fn = TearDownOrder[i]
                 /\ i < Len(last.calls) => ~last.calls[i].err
           /\ Cardinality({i \in DOMAIN last.calls : last.calls[i].fn = "RefCount"}) = 1
           /\ (Len(last.calls) >= 3 /\ ~last.calls[3].err)
                 => (Len(last.calls) = 4 <=> last.refCount - 1 = 1)
           /\ Len(last.calls) = 4 => last.calls[4].dev = last.pre.dev

C19_Witness ==
    /\ last.op = PDTearDownOp
    /\ last.ret = "nil"
    /\ Len(last.calls) = 4
    /\ last.refCount = 2
    /\ last.pre.binds = 1
    /\ last.pre.dev \notin attached

\* C20: after a PersistentDisk SetUp that returned success, a bind mount is
\* present at the canonical path and the disk it binds is attached.
C20_SetUpSuccessMounted ==
    (last.op = PDSetUpOp /\ last.ret = "nil")
        => /\ BindMounted(last.path)
           /\ MountedDevice(State, last.path) \in attached

\* The volume directories of a supported kind for which the scan returned no
\* Cleaner of their kind and identity.
LostEntries == {d \in SupportedEntries : CleanerOf(d) = {}}

\* C22: after a scan of a fully readable tree that stood still, no volume
\* directory of kind empty or gce-pd is left without a Cleaner of its kind,
\* also when one pod holds two volumes of different kinds with the same name,
\* and the scan returns as many Cleaners as there are such directories.
C22_ReconciliationComplete ==
    (ScannedStill /\ scanResult.unreadable = {})
        => /\ LostEntries = {}
           /\ Cardinality(scanResult.volumes) = Cardinality(SupportedEntries)

\* The same call: the function and its arguments, whatever it returned.
SameCall(c, d) == c.fn = d.fn /\ c.path = d.path /\ c.dev = d.dev /\ c.flags = d.flags

\* RefCount returned no error.
Counted(rec) == rec.calls # <<>> /\ ~rec.calls[1].err

\* Two TearDowns made the same calls with the same arguments for as long as
\* the capabilities returned the same, and having made the same calls
\* returned the same.
SameRun(A, B) ==
    LET n == IF Len(A.calls) < Len(B.calls) THEN Len(A.calls) ELSE Len(B.calls)
        Agree(i) == \A j \in 1..i : A.calls[j] = B.calls[j]
    IN  /\ A.path = B.path
        /\ \A i \in 1..n : Agree(i - 1) => SameCall(A.calls[i], B.calls[i])
        /\ Agree(n) => A.calls = B.calls /\ A.ret = B.ret

====
